---- MODULE Spec2Model ----
(***************************************************************************)
(* coggy: an in-memory hypergraph store (AtomSpace) with an attention      *)
(* allocator (ECAN) and a forward-chaining deduction engine (PLN).         *)
(*                                                                         *)
(* Reals (f64 in the source) are modelled as exact rationals <<n, d>> in   *)
(* lowest terms with d > 0; floating-point rounding is not modelled.       *)
(* Option<T> is modelled as a sequence: None is <<>>, Some(x) is <<x>>.    *)
(* HashMap<K, V> is modelled as a function whose DOMAIN is the key set.    *)
(***************************************************************************)
EXTENDS Integers, Sequences, FiniteSets, TLC

VARIABLES atoms, next_id, node_index, link_index, type_index, incoming, turn,
          last, prev, steps

vars == <<atoms, next_id, node_index, link_index, type_index, incoming, turn,
          last, prev, steps>>

(***************************************************************************)
(* Bounds of the model.                                                    *)
(***************************************************************************)
\* operations explored after start-up
MaxSteps == 2
\* direct add_node / add_link calls create atoms only while the store holds
\* fewer atoms than this; re-insertions are never restricted
MaxAtoms == 4
\* forward_chain is called with max_depth in 0..MaxDepth
MaxDepth == 4
\* longest outgoing list handed to add_link, and longest `activated` list
MaxOut == 2

(***************************************************************************)
(* Statement sequencing: Bind(v, F) is the value of F(x) where x is the    *)
(* value of v, computed once before F is applied -- `let x = v; F(x)`.     *)
(***************************************************************************)
Bind(v, F(_)) == CHOOSE y \in {F(x) : x \in {v}} : TRUE

(***************************************************************************)
(* f64 arithmetic, as exact rationals.                                     *)
(***************************************************************************)
RECURSIVE GCD(_, _)
GCD(a, b) == IF b = 0 THEN a ELSE GCD(b, a % b)

Abs(n) == IF n < 0 THEN -n ELSE n

Rat(n, d) ==
    LET g == GCD(Abs(n), Abs(d))
        s == IF d < 0 THEN -1 ELSE 1
    IN  <<(s * n) \div g, (s * d) \div g>>

Zero == <<0, 1>>
One == <<1, 1>>

\* sums, products and comparisons cancel common factors first, so that the
\* intermediate integers stay small
RAdd(x, y) ==
    LET g == GCD(x[2], y[2])
    IN  Rat(x[1] * (y[2] \div g) + y[1] * (x[2] \div g), x[2] * (y[2] \div g))
RNeg(x) == <<-x[1], x[2]>>
RSub(x, y) == RAdd(x, RNeg(y))
RMul(x, y) ==
    LET g1 == GCD(Abs(x[1]), y[2])
        g2 == GCD(Abs(y[1]), x[2])
    IN  Rat((x[1] \div g1) * (y[1] \div g2), (x[2] \div g2) * (y[2] \div g1))
RDivInt(x, k) == RMul(x, <<1, k>>)
RLt(x, y) ==
    LET g == GCD(x[2], y[2])
    IN  x[1] * (y[2] \div g) < y[1] * (x[2] \div g)
RLe(x, y) == ~RLt(y, x)
RMin(x, y) == IF RLt(y, x) THEN y ELSE x
RMax(x, y) == IF RLt(x, y) THEN y ELSE x
RClamp(x, lo, hi) == IF RLt(x, lo) THEN lo ELSE IF RLt(hi, x) THEN hi ELSE x
RAbs(x) == <<Abs(x[1]), x[2]>>

(***************************************************************************)
(* atom.rs                                                                 *)
(***************************************************************************)
TruthValueNewUnclamped(strength, confidence) ==
    [strength |-> strength, confidence |-> confidence]

TruthValueNew(strength, confidence) ==
    [strength |-> RClamp(strength, Zero, One),
     confidence |-> RClamp(confidence, Zero, One)]

is_valid(tv) ==
    /\ RLe(Zero, tv.strength) /\ RLe(tv.strength, One)
    /\ RLe(Zero, tv.confidence) /\ RLe(tv.confidence, One)

AttentionValueZero == [sti |-> Zero, lti |-> Zero]

NodeTypes == {"ConceptNode", "PredicateNode"}
LinkTypes == {"InheritanceLink", "EvaluationLink", "ListLink"}
AtomType == NodeTypes \cup LinkTypes

is_node(t) == t \in {"ConceptNode", "PredicateNode"}
is_link(t) == ~is_node(t)

new_node(id, atom_type, name, tv) ==
    [id |-> id, atom_type |-> atom_type, name |-> <<name>>, outgoing |-> <<>>,
     tv |-> tv, av |-> AttentionValueZero]

new_link(id, atom_type, outgoing, tv) ==
    [id |-> id, atom_type |-> atom_type, name |-> <<>>, outgoing |-> outgoing,
     tv |-> tv, av |-> AttentionValueZero]

(***************************************************************************)
(* atomspace.rs.  A store value `sp` is the record of the AtomSpace        *)
(* fields; the variables of the module hold the one live store.            *)
(***************************************************************************)
EmptyMap == [k \in {} |-> 0]

AtomSpaceNewFromZero ==
    [atoms |-> EmptyMap, next_id |-> 0, node_index |-> EmptyMap,
     link_index |-> EmptyMap, type_index |-> EmptyMap, incoming |-> EmptyMap,
     turn |-> 0]

AtomSpaceNew ==
    [atoms |-> EmptyMap, next_id |-> 1, node_index |-> EmptyMap,
     link_index |-> EmptyMap, type_index |-> EmptyMap, incoming |-> EmptyMap,
     turn |-> 0]

Space ==
    [atoms |-> atoms, next_id |-> next_id, node_index |-> node_index,
     link_index |-> link_index, type_index |-> type_index,
     incoming |-> incoming, turn |-> turn]

size(sp) == Cardinality(DOMAIN sp.atoms)

Range(s) == {s[i] : i \in 1..Len(s)}

\* HashMap::entry(k).or_default().push(v)
PushEntry(m, k, v) ==
    IF k \in DOMAIN m THEN [m EXCEPT ![k] = Append(@, v)]
    ELSE (k :> <<v>>) @@ m

\* the merge arm of add_node / add_link: keep the higher confidence
MergeTvBlend(sp, id, tv) ==
    IF id \in DOMAIN sp.atoms /\ RLt(sp.atoms[id].tv.confidence, tv.confidence)
    THEN [sp EXCEPT !.atoms[id].tv.confidence = tv.confidence]
    ELSE sp

MergeTvAlways(sp, id, tv) ==
    IF id \in DOMAIN sp.atoms
    THEN [sp EXCEPT !.atoms[id].tv = tv]
    ELSE sp

MergeTv(sp, id, tv) ==
    IF id \in DOMAIN sp.atoms /\ RLt(sp.atoms[id].tv.confidence, tv.confidence)
    THEN [sp EXCEPT !.atoms[id].tv = tv]
    ELSE sp

add_node_blind(sp, atom_type, name, tv) ==
    LET id == sp.next_id IN
    [space |-> [sp EXCEPT
                  !.next_id = id + 1,
                  !.atoms = (id :> new_node(id, atom_type, name, tv)) @@ @,
                  !.node_index = (<<atom_type, name>> :> id) @@ @,
                  !.type_index = PushEntry(@, atom_type, id)],
     id |-> id, is_new |-> TRUE]

add_node(sp, atom_type, name, tv) ==
    LET key == <<atom_type, name>> IN
    IF key \in DOMAIN sp.node_index
    THEN LET id == sp.node_index[key] IN
         [space |-> MergeTv(sp, id, tv), id |-> id, is_new |-> FALSE]
    ELSE LET id == sp.next_id IN
         [space |-> [sp EXCEPT
                       !.next_id = id + 1,
                       !.atoms = (id :> new_node(id, atom_type, name, tv)) @@ @,
                       !.node_index = (key :> id) @@ @,
                       !.type_index = PushEntry(@, atom_type, id)],
          id |-> id, is_new |-> TRUE]

RECURSIVE PushIncomingOnce(_, _, _, _)
PushIncomingOnce(inc, outgoing, k, id) ==
    IF k > Len(outgoing) THEN inc
    ELSE PushIncomingOnce(
             IF outgoing[k] \in DOMAIN inc /\ id \in Range(inc[outgoing[k]])
             THEN inc ELSE PushEntry(inc, outgoing[k], id),
             outgoing, k + 1, id)

RECURSIVE PushIncoming(_, _, _, _)
PushIncoming(inc, outgoing, k, id) ==
    IF k > Len(outgoing) THEN inc
    ELSE PushIncoming(PushEntry(inc, outgoing[k], id), outgoing, k + 1, id)

\* the key of link_index: the type and the outgoing vector itself
LinkKeyUnordered(atom_type, outgoing) == <<atom_type, Range(outgoing)>>

LinkKey(atom_type, outgoing) == <<atom_type, outgoing>>

add_link(sp, atom_type, outgoing, tv) ==
    LET key == LinkKey(atom_type, outgoing) IN
    IF key \in DOMAIN sp.link_index
    THEN LET id == sp.link_index[key] IN
         [space |-> MergeTv(sp, id, tv), id |-> id, is_new |-> FALSE]
    ELSE LET id == sp.next_id IN
         [space |-> [sp EXCEPT
                       !.next_id = id + 1,
                       !.atoms = (id :> new_link(id, atom_type, outgoing, tv)) @@ @,
                       !.link_index = (key :> id) @@ @,
                       !.type_index = PushEntry(@, atom_type, id),
                       !.incoming = PushIncoming(@, outgoing, 1, id)],
          id |-> id, is_new |-> TRUE]

find_node(sp, atom_type, name) ==
    IF <<atom_type, name>> \in DOMAIN sp.node_index
    THEN <<sp.node_index[<<atom_type, name>>]>> ELSE <<>>

find_link(sp, atom_type, outgoing) ==
    IF LinkKey(atom_type, outgoing) \in DOMAIN sp.link_index
    THEN <<sp.link_index[LinkKey(atom_type, outgoing)]>> ELSE <<>>

get_by_type(sp, atom_type) ==
    IF atom_type \in DOMAIN sp.type_index THEN sp.type_index[atom_type] ELSE <<>>

get_incoming(sp, id) ==
    IF id \in DOMAIN sp.incoming THEN sp.incoming[id] ELSE <<>>

\* atoms_by_sti: `atoms.values()` visits a HashMap in an order the language
\* leaves open, the sort is stable and compares sti only, so atoms with the
\* same sti come out in the order they were visited.  ByStiOrders is the set
\* of the sequences the sort can return over the ids of S.
HighestSti(sp, S) ==
    {x \in S : \A y \in S : RLe(sp.atoms[y].av.sti, sp.atoms[x].av.sti)}

RECURSIVE ByStiOrders(_, _)
ByStiOrders(sp, S) ==
    IF S = {} THEN {<<>>}
    ELSE UNION {{<<x>> \o rest : rest \in ByStiOrders(sp, S \ {x})} :
                x \in HighestSti(sp, S)}

AboveThreshold(sp) == {id \in DOMAIN sp.atoms : RLt(<<1, 100>>, sp.atoms[id].av.sti)}

Truncate(s, limit) == IF Len(s) > limit THEN SubSeq(s, 1, limit) ELSE s

\* the results a call can return
atoms_by_sti(sp, limit) ==
    {Truncate(o, limit) : o \in ByStiOrders(sp, AboveThreshold(sp))}

\* the elements of a set of ids, ascending
SortedSeq(S) ==
    [i \in 1..Cardinality(S) |->
        CHOOSE x \in S : Cardinality({y \in S : y <= x}) = i]

all_ids(sp) == SortedSeq(DOMAIN sp.atoms)

(***************************************************************************)
(* pln.rs                                                                  *)
(***************************************************************************)
NineTenths == <<9, 10>>

deduction_tv_max(tv_ab, tv_bc) ==
    TruthValueNew(RMul(tv_ab.strength, tv_bc.strength),
                  RMul(RMax(tv_ab.confidence, tv_bc.confidence), NineTenths))

deduction_tv(tv_ab, tv_bc) ==
    TruthValueNew(RMul(tv_ab.strength, tv_bc.strength),
                  RMul(RMin(tv_ab.confidence, tv_bc.confidence), NineTenths))

\* the (src, tgt, link_id, tv) triples of the two-place inheritance links,
\* in type-index order
TwoPlace(sp, id) == id \in DOMAIN sp.atoms /\ Len(sp.atoms[id].outgoing) = 2

CollectKept(sp, inh_ids) == SelectSeq(inh_ids, LAMBDA id : TwoPlace(sp, id))

CollectLinks(sp, kept) ==
    [k \in 1..Len(kept) |->
        [a |-> sp.atoms[kept[k]].outgoing[1], b |-> sp.atoms[kept[k]].outgoing[2],
         id |-> kept[k], tv |-> sp.atoms[kept[k]].tv]]

\* the conclusion (a, c) is skipped when the store already holds it
ConclusionExists(sp, a, c) == find_link(sp, "InheritanceLink", <<a, c>>) # <<>>

\* the double loop over (a->b, b->c), as the pairs (i, j) of positions of
\* `links` in the order the loops visit them
PairAt(links, n) == <<((n - 1) \div Len(links)) + 1, ((n - 1) % Len(links)) + 1>>

BeforeReversed(p, q) == q[1] < p[1] \/ (q[1] = p[1] /\ q[2] < p[2])

Before(p, q) == p[1] < q[1] \/ (p[1] = q[1] /\ p[2] < q[2])

DerivableLoops(sp, links, p) ==
    /\ links[p[1]].b = links[p[2]].a
    /\ ~ConclusionExists(sp, links[p[1]].a, links[p[2]].b)

\* the two links share the middle term, the end points differ and the store
\* does not hold the conclusion yet
Derivable(sp, links, p) ==
    /\ links[p[1]].b = links[p[2]].a
    /\ links[p[1]].a # links[p[2]].b
    /\ ~ConclusionExists(sp, links[p[1]].a, links[p[2]].b)

SameConclusion(links, p, q) ==
    links[p[1]].a = links[q[1]].a /\ links[p[2]].b = links[q[2]].b

\* `candidates` holds (a, c) already: an earlier derivable pair concludes it
AlreadyCandidate(sp, links, p) ==
    \E i \in 1..Len(links), j \in 1..Len(links) :
        /\ Before(<<i, j>>, p)
        /\ SameConclusion(links, <<i, j>>, p)
        /\ Derivable(sp, links, <<i, j>>)

Selected(sp, links) ==
    SelectSeq([n \in 1..(Len(links) * Len(links)) |-> PairAt(links, n)],
              LAMBDA p : Derivable(sp, links, p) /\ ~AlreadyCandidate(sp, links, p))

Candidates(sp, links, selected) ==
    [n \in 1..Len(selected) |->
        [a |-> links[selected[n][1]].a, c |-> links[selected[n][2]].b,
         tv |-> deduction_tv(links[selected[n][1]].tv, links[selected[n][2]].tv),
         ab_id |-> links[selected[n][1]].id, bc_id |-> links[selected[n][2]].id]]

\* the second loop: add_link for every candidate, one Inference per new link
Record(inferences, cd, r) ==
    IF r.is_new
    THEN Append(inferences,
                [rule |-> "deduction", premises |-> <<cd.ab_id, cd.bc_id>>,
                 conclusion_id |-> r.id, tv |-> cd.tv])
    ELSE inferences

RECURSIVE Materialize(_, _, _, _)
Materialize(sp, cands, k, inferences) ==
    IF k > Len(cands) THEN [space |-> sp, inferences |-> inferences]
    ELSE Bind(add_link(sp, "InheritanceLink", <<cands[k].a, cands[k].c>>, cands[k].tv),
              LAMBDA r : Materialize(r.space, cands, k + 1,
                                     Record(inferences, cands[k], r)))

deduction_links(sp) ==
    CollectLinks(sp, CollectKept(sp, get_by_type(sp, "InheritanceLink")))

deduction_candidates(sp, links) == Candidates(sp, links, Selected(sp, links))

deduction_step(sp) ==
    Bind(deduction_links(sp),
         LAMBDA links :
            Bind(deduction_candidates(sp, links),
                 LAMBDA candidates : Materialize(sp, candidates, 1, <<>>)))

\* variants of the round loop
\*   one round only, reported as if the loop had left through `break`
ChainLoopOneRound(sp, remaining, all, rounds) ==
    IF remaining = 0
    THEN [space |-> sp, inferences |-> all, rounds |-> rounds, broke |-> FALSE]
    ELSE Bind(deduction_step(sp),
              LAMBDA step :
                 [space |-> step.space, inferences |-> all \o step.inferences,
                  rounds |-> rounds + 1, broke |-> TRUE])

\*   every round runs, whatever the one before produced
RECURSIVE ChainLoopNoBreak(_, _, _, _)
ChainLoopNoBreak(sp, remaining, all, rounds) ==
    IF remaining = 0
    THEN [space |-> sp, inferences |-> all, rounds |-> rounds, broke |-> FALSE]
    ELSE Bind(deduction_step(sp),
              LAMBDA step :
                 ChainLoopNoBreak(step.space, remaining - 1,
                                  all \o step.inferences, rounds + 1))

\*   the range of the loop taken inclusive: one round more than max_depth
RECURSIVE ChainLoopInclusive(_, _, _, _)
ChainLoopInclusive(sp, remaining, all, rounds) ==
    IF remaining < 0
    THEN [space |-> sp, inferences |-> all, rounds |-> rounds, broke |-> FALSE]
    ELSE Bind(deduction_step(sp),
              LAMBDA step :
                 IF step.inferences = <<>>
                 THEN [space |-> step.space, inferences |-> all,
                       rounds |-> rounds + 1, broke |-> TRUE]
                 ELSE ChainLoopInclusive(step.space, remaining - 1,
                                         all \o step.inferences, rounds + 1))

\* the round loop; `rounds` counts the calls of deduction_step and `broke`
\* tells whether the loop left through `break`
RECURSIVE ChainLoop(_, _, _, _)
ChainLoop(sp, remaining, all, rounds) ==
    IF remaining = 0
    THEN [space |-> sp, inferences |-> all, rounds |-> rounds, broke |-> FALSE]
    ELSE Bind(deduction_step(sp),
              LAMBDA step :
                 IF step.inferences = <<>>
                 THEN [space |-> step.space, inferences |-> all,
                       rounds |-> rounds + 1, broke |-> TRUE]
                 ELSE ChainLoop(step.space, remaining - 1,
                                all \o step.inferences, rounds + 1))

forward_chain(sp, max_depth) == ChainLoop(sp, max_depth, <<>>, 0)

(***************************************************************************)
(* ecan.rs                                                                 *)
(***************************************************************************)
EcanConfigDefault ==
    [spread_fraction |-> <<3, 10>>, decay_factor |-> <<7, 10>>,
     initial_sti |-> <<40, 1>>, rent |-> <<1, 2>>]

\* the boost of phase 1, by atom type
BoostFlat(atom_type, config) == config.initial_sti

Boost(atom_type, config) ==
    CASE atom_type = "ListLink" -> config.initial_sti
      [] atom_type \in {"EvaluationLink", "InheritanceLink"} ->
            RMul(config.initial_sti, <<85, 100>>)
      [] atom_type = "ConceptNode" -> RMul(config.initial_sti, <<95, 100>>)
      [] atom_type = "PredicateNode" -> RMul(config.initial_sti, <<1, 2>>)

AddSti(sp, id, amount) ==
    IF id \in DOMAIN sp.atoms
    THEN [sp EXCEPT !.atoms[id].av.sti = RAdd(@, amount)]
    ELSE sp

\*   one boost per distinct id of `activated`
BoostPhaseOnce(sp, activated, k, config) ==
    [sp EXCEPT !.atoms =
        [id \in DOMAIN sp.atoms |->
            IF id \in Range(activated)
            THEN [sp.atoms[id] EXCEPT
                    !.av.sti = RAdd(@, Boost(sp.atoms[id].atom_type, config))]
            ELSE sp.atoms[id]]]

\* Phase 1: one boost per occurrence in `activated`
RECURSIVE BoostPhase(_, _, _, _)
BoostPhase(sp, activated, k, config) ==
    IF k > Len(activated) THEN sp
    ELSE LET id == activated[k] IN
         BoostPhase(IF id \in DOMAIN sp.atoms
                    THEN AddSti(sp, id, Boost(sp.atoms[id].atom_type, config))
                    ELSE sp,
                    activated, k + 1, config)

\* amount pushed to each element of `targets`
Fan(targets, amount) == [i \in 1..Len(targets) |-> <<targets[i], amount>>]

\* Phase 2, read-only pass: the (target, amount) pairs of one atom
SpreadsOut(a, config) ==
    IF is_link(a.atom_type) /\ a.outgoing # <<>>
    THEN Fan(a.outgoing,
             RDivInt(RMul(a.av.sti, config.spread_fraction), Len(a.outgoing)))
    ELSE <<>>

SpreadsBack(a, inc, config) ==
    IF inc # <<>>
    THEN Fan(inc,
             RDivInt(RMul(RMul(a.av.sti, config.spread_fraction), <<3, 10>>),
                     Len(inc)))
    ELSE <<>>

SpreadsOf(sp, id, config) ==
    IF id \notin DOMAIN sp.atoms \/ RLt(sp.atoms[id].av.sti, One) THEN <<>>
    ELSE SpreadsOut(sp.atoms[id], config)
         \o SpreadsBack(sp.atoms[id], get_incoming(sp, id), config)

\* `spreads`: the pairs of every atom of `ids`, atom after atom.  `per`
\* holds the pairs of each atom and `slots` the positions <<k, p>> of `per`;
\* the n-th pair pushed is the one with n - 1 positions before it
SpreadsPerAtom(sp, ids, config) ==
    [k \in 1..Len(ids) |-> SpreadsOf(sp, ids[k], config)]

Slots(per) == UNION {{<<k, p>> : p \in 1..Len(per[k])} : k \in 1..Len(per)}

SlotBefore(q, s) == q[1] < s[1] \/ (q[1] = s[1] /\ q[2] < s[2])

Flatten(per, slots) ==
    [n \in 1..Cardinality(slots) |->
        Bind(CHOOSE s \in slots :
                Cardinality({q \in slots : SlotBefore(q, s)}) = n - 1,
             LAMBDA s : per[s[1]][s[2]])]

CollectSpreads(sp, ids, config) ==
    Bind(SpreadsPerAtom(sp, ids, config), LAMBDA per : Flatten(per, Slots(per)))

\* Apply spreads: every pair adds its amount to its target, if the store
\* holds it; an atom ends with the amounts aimed at it added in list order
RECURSIVE AddAll(_, _, _)
AddAll(sti, hits, k) ==
    IF k > Len(hits) THEN sti ELSE AddAll(RAdd(sti, hits[k][2]), hits, k + 1)

ApplySpreads(sp, spreads_list) ==
    [sp EXCEPT !.atoms =
        [id \in DOMAIN sp.atoms |->
            [sp.atoms[id] EXCEPT !.av.sti =
                AddAll(@, SelectSeq(spreads_list, LAMBDA s : s[1] = id), 1)]]]

\* Phase 3: decay of one non-activated atom
Decay(sti, config) ==
    IF RLt(Zero, sti)
    THEN RMax(RSub(RMul(sti, config.decay_factor), config.rent), Zero)
    ELSE sti

\*   decay applied to every atom, activated or not
DecayPhaseAll(sp, activated_set, config) ==
    [sp EXCEPT !.atoms =
        [id \in DOMAIN sp.atoms |->
            [sp.atoms[id] EXCEPT !.av.sti = Decay(@, config)]]]

\* the loop runs over all_ids, which are the keys of `atoms`
DecayPhase(sp, activated_set, config) ==
    [sp EXCEPT !.atoms =
        [id \in DOMAIN sp.atoms |->
            IF id \in activated_set THEN sp.atoms[id]
            ELSE [sp.atoms[id] EXCEPT !.av.sti = Decay(@, config)]]]

StiOf(sp, id) == IF id \in DOMAIN sp.atoms THEN sp.atoms[id].av.sti ELSE Zero

OldOf(old_sti, id) == IF id \in DOMAIN old_sti THEN old_sti[id] ELSE Zero

\* the change records: snapshot atoms that moved by more than 0.01, then
\* activated ids missing from the snapshot that end above 0.01
StiChange(sp, old_sti, listed) ==
    [k \in 1..Len(listed) |->
        [id |-> listed[k], old |-> OldOf(old_sti, listed[k]),
         new_val |-> StiOf(sp, listed[k])]]

ChangesOld(sp, old_sti, ids) ==
    StiChange(sp, old_sti,
        SelectSeq(ids, LAMBDA id :
            RLt(<<1, 100>>, RAbs(RSub(StiOf(sp, id), OldOf(old_sti, id))))))

ChangesNew(sp, old_sti, activated) ==
    StiChange(sp, old_sti,
        SelectSeq(activated, LAMBDA id :
            id \notin DOMAIN old_sti /\ RLt(<<1, 100>>, StiOf(sp, id))))

Snapshot(sp) == [id \in DOMAIN sp.atoms |-> sp.atoms[id].av.sti]

spread_changes(sp3, old_sti, ids, activated) ==
    [space |-> sp3,
     changes |-> ChangesOld(sp3, old_sti, ids) \o ChangesNew(sp3, old_sti, activated)]

spread_decay(sp2, old_sti, ids, activated, config) ==
    Bind(DecayPhase(sp2, Range(activated), config),
         LAMBDA sp3 : spread_changes(sp3, old_sti, ids, activated))

\*   each atom's contributions applied before the next atom is read
RECURSIVE SpreadInPlace(_, _, _, _)
SpreadInPlace(sp, ids, k, config) ==
    IF k > Len(ids) THEN sp
    ELSE Bind(ApplySpreads(sp, SpreadsOf(sp, ids[k], config)),
              LAMBDA nxt : SpreadInPlace(nxt, ids, k + 1, config))

spread_apply_in_place(sp1, old_sti, ids, activated, config) ==
    Bind(SpreadInPlace(sp1, ids, 1, config),
         LAMBDA sp2 : spread_decay(sp2, old_sti, ids, activated, config))

spread_apply(sp1, old_sti, ids, activated, config) ==
    Bind(ApplySpreads(sp1, CollectSpreads(sp1, ids, config)),
         LAMBDA sp2 : spread_decay(sp2, old_sti, ids, activated, config))

spread_boost(sp, old_sti, ids, activated, config) ==
    Bind(BoostPhase(sp, activated, 1, config),
         LAMBDA sp1 : spread_apply(sp1, old_sti, ids, activated, config))

spread_attention(sp, activated, config) ==
    Bind(all_ids(sp),
         LAMBDA ids : spread_boost(sp, Snapshot(sp), ids, activated, config))

boosted(c) == RLt(RAdd(c.old, <<1, 10>>), c.new_val)
decayed(c) == RLt(c.new_val, RSub(c.old, <<1, 10>>))

(***************************************************************************)
(* tikkun.rs                                                               *)
(***************************************************************************)
\* the outgoing positions, over all links, whose id the store does not hold
OrphanRefs(sp) ==
    UNION {{<<id, i>> : i \in {j \in 1..Len(sp.atoms[id].outgoing) :
                                    sp.atoms[id].outgoing[j] \notin DOMAIN sp.atoms}} :
           id \in {x \in DOMAIN sp.atoms : is_link(sp.atoms[x].atom_type)}}

types_present(sp) ==
    {t \in DOMAIN sp.type_index : Len(sp.type_index[t]) > 0}

run_tikkun(sp) ==
    LET count == size(sp)
        invalid_tvs == Cardinality({id \in DOMAIN sp.atoms : ~is_valid(sp.atoms[id].tv)})
        orphans == Cardinality(OrphanRefs(sp))
        inh == get_by_type(sp, "InheritanceLink")
        self_loops == Cardinality({k \in 1..Len(inh) :
                          /\ inh[k] \in DOMAIN sp.atoms
                          /\ Len(sp.atoms[inh[k]].outgoing) = 2
                          /\ sp.atoms[inh[k]].outgoing[1] = sp.atoms[inh[k]].outgoing[2]})
        checks == <<[name |-> "atoms>0", passed |-> count > 0],
                    [name |-> "tvs-valid", passed |-> invalid_tvs = 0],
                    [name |-> "no-orphans", passed |-> orphans = 0],
                    [name |-> "has-types", passed |-> Cardinality(types_present(sp)) >= 2],
                    [name |-> "no-self-inherit", passed |-> self_loops = 0]>>
    IN  [checks |-> checks,
         all_healthy |-> \A i \in 1..Len(checks) : checks[i].passed]

(***************************************************************************)
(* parse.rs.  The input line is modelled from the point where it has been  *)
(* trimmed, lower-cased, stripped of trailing punctuation and split into   *)
(* `words`; the `desc` text of a ParsedAtom is presentation and is left    *)
(* out of the record.                                                      *)
(***************************************************************************)
RECURSIVE Join(_, _, _)
Join(words, from, to) ==
    IF from > to THEN ""
    ELSE IF from = to THEN words[from]
    ELSE words[from] \o "-" \o Join(words, from + 1, to)

\* Iterator::position, 1-based; 0 when no word matches
Position(words, S) ==
    IF \E i \in 1..Len(words) : words[i] \in S
    THEN CHOOSE i \in 1..Len(words) :
            words[i] \in S /\ \A j \in 1..(i - 1) : words[j] \notin S
    ELSE 0

Parsed(r) == [id |-> r.id, is_new |-> r.is_new]

Hundredths(s, c) == TruthValueNew(Rat(s, 100), Rat(c, 100))

\* the result so far, with one more insertion
Pushed(res, r) == [space |-> r.space, atoms |-> Append(res.atoms, Parsed(r))]

push_node(res, atom_type, name, tv) ==
    Bind(add_node(res.space, atom_type, name, tv), LAMBDA r : Pushed(res, r))

\* a link over the atoms at positions i and j of the result so far
push_link(res, atom_type, i, j, tv) ==
    Bind(add_link(res.space, atom_type, <<res.atoms[i].id, res.atoms[j].id>>, tv),
         LAMBDA r : Pushed(res, r))

Nothing(sp) == [space |-> sp, atoms |-> <<>>]

make_inheritance(sp, subj, obj) ==
    push_link(
        push_node(
            push_node(Nothing(sp), "ConceptNode", subj, Hundredths(90, 85)),
            "ConceptNode", obj, Hundredths(90, 85)),
        "InheritanceLink", 1, 2, Hundredths(95, 90))

make_evaluation(sp, pred, subj, obj) ==
    push_link(
        push_link(
            push_node(
                push_node(
                    push_node(Nothing(sp), "ConceptNode", subj, Hundredths(80, 50)),
                    "ConceptNode", obj, Hundredths(80, 50)),
                "PredicateNode", pred, Hundredths(70, 40)),
            "ListLink", 1, 2, Hundredths(0, 0)),
        "EvaluationLink", 3, 4, Hundredths(70, 30))

parse_two_words(sp, words) ==
    push_link(
        push_node(
            push_node(Nothing(sp), "ConceptNode", words[1], Hundredths(80, 50)),
            "ConceptNode", words[2], Hundredths(80, 50)),
        "ListLink", 1, 2, Hundredths(0, 0))

parse_one_word(sp, words) ==
    push_node(Nothing(sp), "ConceptNode", words[1], Hundredths(80, 50))

parse_input(sp, words) ==
    LET n == Len(words)
        isa == Position(words, {"is-a", "isa"})
        is == Position(words, {"is"})
    IN  IF n = 0 THEN Nothing(sp)
        ELSE IF isa > 1 /\ isa < n
        THEN make_inheritance(sp, Join(words, 1, isa - 1), Join(words, isa + 1, n))
        ELSE IF is > 1 /\ is + 2 <= n /\ words[is + 1] \in {"a", "an"}
        THEN make_inheritance(sp, Join(words, 1, is - 1), Join(words, is + 2, n))
        ELSE IF n >= 3 /\ words[1] = "what" /\ words[2] = "is"
        THEN make_evaluation(sp, "is", "what", Join(words, 3, n))
        ELSE IF n >= 4 /\ words[1] = "what" /\ words[2] = "can" /\ words[3] = "you"
        THEN make_evaluation(sp, "can-you", "what", Join(words, 4, n))
        ELSE IF n >= 3 /\ words[1] \in {"who", "where", "when", "why", "how"}
        THEN make_evaluation(sp, words[2], words[1], Join(words, 3, n))
        ELSE IF n >= 3
        THEN make_evaluation(sp, words[2], words[1], Join(words, 3, n))
        ELSE IF n = 2 THEN parse_two_words(sp, words)
        ELSE parse_one_word(sp, words)

\* ParseResult::all_ids
parsed_all_ids(parsed) == [i \in 1..Len(parsed.atoms) |-> parsed.atoms[i].id]

(***************************************************************************)
(* cogloop.rs.  The trace lines are presentation and are left out; the     *)
(* result keeps what the phases hand to each other.                        *)
(***************************************************************************)
InferDepth == 2

\* REFLECT: the result record
run_reflect(inf, att, activated, initial_size, turn_now) ==
    [space |-> inf.space,
     new_atoms |-> size(inf.space) - initial_size,
     total_atoms |-> size(inf.space),
     turn |-> turn_now,
     inferences |-> inf.inferences,
     activated |-> activated,
     changes |-> att.changes]

\* INFER: forward_chain with the fixed depth, on the store ATTEND left
run_infer(att, activated, initial_size, turn_now) ==
    Bind(forward_chain(att.space, InferDepth),
         LAMBDA inf : run_reflect(inf, att, activated, initial_size, turn_now))

\* ATTEND: spread_attention with every id the parser touched
run_attend(parsed, activated, initial_size, turn_now, config) ==
    Bind(spread_attention(parsed.space, activated, config),
         LAMBDA att : run_infer(att, activated, initial_size, turn_now))

\* the activated list: every id the parser returned, new or not
run_activate_new_only(parsed, initial_size, turn_now, config) ==
    run_attend(parsed,
               parsed_all_ids([parsed EXCEPT !.atoms =
                                  SelectSeq(@, LAMBDA pa : pa.is_new)]),
               initial_size, turn_now, config)

\* PARSE, on the store with the turn counter already incremented
run_activate(parsed, initial_size, turn_now, config) ==
    run_attend(parsed, parsed_all_ids(parsed), initial_size, turn_now, config)

run_parse(sp0, words, config) ==
    Bind(parse_input(sp0, words),
         LAMBDA parsed : run_activate(parsed, size(sp0), sp0.turn, config))

run(sp, words, config) ==
    Bind([sp EXCEPT !.turn = @ + 1], LAMBDA sp0 : run_parse(sp0, words, config))

(***************************************************************************)
(* ontology.rs.  load_base_ontology with its three tables as arguments:    *)
(* concepts and predicates are <<name, strength, confidence>> and links    *)
(* are <<src, tgt, strength, confidence>>, numbers in hundredths.  A link  *)
(* whose concept is missing panics in the source; the tables used here     *)
(* name only concepts they hold.                                           *)
(***************************************************************************)
RECURSIVE LoadNodes(_, _, _, _)
LoadNodes(sp, atom_type, table, k) ==
    IF k > Len(table) THEN sp
    ELSE Bind(add_node(sp, atom_type, table[k][1],
                       Hundredths(table[k][2], table[k][3])),
              LAMBDA r : LoadNodes(r.space, atom_type, table, k + 1))

RECURSIVE LoadLinks(_, _, _)
LoadLinks(sp, table, k) ==
    IF k > Len(table) THEN sp
    ELSE Bind(add_link(sp, "InheritanceLink",
                       <<find_node(sp, "ConceptNode", table[k][1])[1],
                         find_node(sp, "ConceptNode", table[k][2])[1]>>,
                       Hundredths(table[k][3], table[k][4])),
              LAMBDA r : LoadLinks(r.space, table, k + 1))

load_base_ontology(sp, ont) ==
    LoadLinks(LoadNodes(LoadNodes(sp, "ConceptNode", ont.concepts, 1),
                        "PredicateNode", ont.predicates, 1),
              ont.links, 1)

\* sub-tables of the base ontology, rows in the order of the source
NoOntology == [concepts |-> <<>>, predicates |-> <<>>, links |-> <<>>]

PairOntology ==
    [concepts |-> <<<<"mammal", 95, 90>>, <<"cat", 90, 85>>>>,
     predicates |-> <<>>, links |-> <<>>]

PlantOntology ==
    [concepts |-> <<<<"living-thing", 95, 95>>, <<"plant", 95, 90>>,
                    <<"vegetable", 95, 90>>>>,
     predicates |-> <<>>,
     links |-> <<<<"plant", "living-thing", 99, 95>>,
                 <<"vegetable", "plant", 95, 90>>>>]

CucumberOntology ==
    [concepts |-> <<<<"living-thing", 95, 95>>, <<"plant", 95, 90>>,
                    <<"vegetable", 95, 90>>, <<"cucumber", 90, 85>>>>,
     predicates |-> <<>>,
     links |-> <<<<"plant", "living-thing", 99, 95>>,
                 <<"vegetable", "plant", 95, 90>>,
                 <<"cucumber", "vegetable", 90, 85>>>>]

CatOntology ==
    [concepts |-> <<<<"thing", 99, 99>>, <<"living-thing", 95, 95>>,
                    <<"animal", 95, 90>>, <<"mammal", 95, 90>>, <<"cat", 90, 85>>>>,
     predicates |-> <<<<"afraid-of", 80, 70>>>>,
     links |-> <<<<"living-thing", "thing", 99, 95>>,
                 <<"animal", "living-thing", 99, 95>>,
                 <<"mammal", "animal", 95, 90>>,
                 <<"cat", "mammal", 95, 90>>>>]

Ontologies == {NoOntology, PairOntology, PlantOntology}

ChainOntologies == {PlantOntology, CucumberOntology, CatOntology}

\* one atom of every type, none referring to another: nodes and links with
\* an empty outgoing list, inserted through the store's own API
IsolatedAtoms ==
    add_link(
      add_link(
        add_link(
          add_node(
            add_node(AtomSpaceNew, "ConceptNode", "cat", Hundredths(90, 85)).space,
            "PredicateNode", "afraid-of", Hundredths(80, 70)).space,
          "InheritanceLink", <<>>, Hundredths(95, 90)).space,
        "EvaluationLink", <<>>, Hundredths(70, 30)).space,
      "ListLink", <<>>, Hundredths(0, 0)).space

(***************************************************************************)
(* The state machine.  Start-up is main(): AtomSpace::new() followed by    *)
(* load_base_ontology.  Then one action per public operation, applied to   *)
(* the one live store.  `last` records the most recent call: its arguments, *)
(* what it returned and the atom count before and after it; `prev` is the  *)
(* call before it; `steps` counts the operations performed.                *)
(***************************************************************************)
Names == {"cat", "mammal"}

\* raw (strength, confidence) arguments of TruthValue::new, in hundredths;
\* the last one is out of range on both sides
TVInputs == {<<70, 90>>, <<150, -10>>}

InputLines ==
    {<<"cat", "is-a", "mammal">>, <<"mammal", "is", "an", "animal">>,
     <<"cat">>, <<"cat", "mammal">>, <<"what", "is", "cat">>,
     <<"what", "can", "you", "do">>, <<"who", "is", "cat">>,
     <<"cat", "likes", "fish">>, <<"cat", "is", "a", "cat">>,
     <<"cucumber", "is-a", "vegetable">>, <<"kitten", "is-a", "cat">>,
     <<"thing", "is-a", "cat">>, <<>>}

SeqsUpTo(S, n) == UNION {[1..k -> S] : k \in 0..n}

\* the names of the nodes in the store
NamesPresent == {k[2] : k \in DOMAIN node_index}

Install(sp) ==
    /\ atoms' = sp.atoms
    /\ next_id' = sp.next_id
    /\ node_index' = sp.node_index
    /\ link_index' = sp.link_index
    /\ type_index' = sp.type_index
    /\ incoming' = sp.incoming
    /\ turn' = sp.turn

StartWith(sp) ==
    /\ atoms = sp.atoms
    /\ next_id = sp.next_id
    /\ node_index = sp.node_index
    /\ link_index = sp.link_index
    /\ type_index = sp.type_index
    /\ incoming = sp.incoming
    /\ turn = sp.turn
    /\ last = [op |-> "new", count |-> size(sp)]
    /\ prev = [op |-> "none"]
    /\ steps = 0

Init == \E ont \in Ontologies : StartWith(load_base_ontology(AtomSpaceNew, ont))

AddNode ==
    /\ steps < MaxSteps
    /\ \E atom_type \in NodeTypes, name \in Names \cup NamesPresent, raw \in TVInputs :
        \E tv \in {Hundredths(raw[1], raw[2])} :
        \E r \in {add_node(Space, atom_type, name, tv)} :
            /\ r.is_new => size(Space) < MaxAtoms
            /\ Install(r.space)
            /\ last' = [op |-> "add_node",
                        args |-> [atom_type |-> atom_type, name |-> name, tv |-> tv],
                        ret |-> [id |-> r.id, is_new |-> r.is_new],
                        before |-> size(Space), count |-> size(r.space)]
            /\ prev' = last
            /\ steps' = steps + 1

AddLink ==
    /\ steps < MaxSteps
    /\ \E atom_type \in LinkTypes, outgoing \in SeqsUpTo(DOMAIN atoms, MaxOut),
          raw \in TVInputs :
        \E tv \in {Hundredths(raw[1], raw[2])} :
        \E r \in {add_link(Space, atom_type, outgoing, tv)} :
            /\ r.is_new => size(Space) < MaxAtoms
            /\ Install(r.space)
            /\ last' = [op |-> "add_link",
                        args |-> [atom_type |-> atom_type, outgoing |-> outgoing,
                                  tv |-> tv],
                        ret |-> [id |-> r.id, is_new |-> r.is_new],
                        before |-> size(Space), count |-> size(r.space)]
            /\ prev' = last
            /\ steps' = steps + 1

SpreadAttention ==
    /\ steps < MaxSteps
    /\ \E activated \in SeqsUpTo(DOMAIN atoms \cup {next_id}, MaxOut) :
        \E r \in {spread_attention(Space, activated, EcanConfigDefault)} :
            /\ Install(r.space)
            /\ last' = [op |-> "spread_attention",
                        args |-> [activated |-> activated],
                        ret |-> [changes |-> r.changes],
                        before |-> size(Space), count |-> size(r.space)]
            /\ prev' = last
            /\ steps' = steps + 1

ForwardChain ==
    /\ steps < MaxSteps
    /\ \E max_depth \in 0..MaxDepth :
        \E r \in {forward_chain(Space, max_depth)} :
            /\ Install(r.space)
            /\ last' = [op |-> "forward_chain",
                        args |-> [max_depth |-> max_depth],
                        ret |-> [inferences |-> r.inferences],
                        rounds |-> r.rounds, broke |-> r.broke,
                        before |-> size(Space), count |-> size(r.space)]
            /\ prev' = last
            /\ steps' = steps + 1

Run ==
    /\ steps < MaxSteps
    /\ \E words \in InputLines :
        \E r \in {run(Space, words, EcanConfigDefault)} :
            /\ Install(r.space)
            /\ last' = [op |-> "run",
                        args |-> [words |-> words],
                        ret |-> [new_atoms |-> r.new_atoms,
                                 total_atoms |-> r.total_atoms,
                                 turn |-> r.turn,
                                 inferences |-> Len(r.inferences)],
                        activated |-> r.activated,
                        before |-> size(Space), count |-> size(r.space)]
            /\ prev' = last
            /\ steps' = steps + 1

RunTikkun ==
    /\ steps < MaxSteps
    /\ \E r \in {run_tikkun(Space)} :
          last' = [op |-> "run_tikkun", ret |-> r,
                   before |-> size(Space), count |-> size(Space)]
    /\ prev' = last
    /\ steps' = steps + 1
    /\ UNCHANGED <<atoms, next_id, node_index, link_index, type_index, incoming,
                   turn>>

Next ==
    \/ AddNode
    \/ AddLink
    \/ SpreadAttention
    \/ ForwardChain
    \/ Run
    \/ RunTikkun

Spec == Init /\ [][Next]_vars

(***************************************************************************)
(* The inference engine on its own: start-up with an inheritance chain of  *)
(* two, three or four edges, then forward_chain, run and run_tikkun.       *)
(***************************************************************************)
InitInfer ==
    \E ont \in ChainOntologies : StartWith(load_base_ontology(AtomSpaceNew, ont))

NextInfer ==
    \/ ForwardChain
    \/ Run
    \/ RunTikkun

SpecInfer == InitInfer /\ [][NextInfer]_vars

(***************************************************************************)
(* The attention allocator on its own: over atoms that no link refers to  *)
(* and that refer to nothing, fresh or after earlier calls, and over the   *)
(* same atoms with one link between two of them.                           *)
(***************************************************************************)
\* the isolated atoms and an inheritance link between the two nodes
LinkedAtoms ==
    add_link(IsolatedAtoms, "InheritanceLink", <<1, 2>>, Hundredths(90, 80)).space

\* `n` further calls of spread_attention with nothing activated
RECURSIVE Fade(_, _)
Fade(sp, n) ==
    IF n = 0 THEN sp
    ELSE Bind(spread_attention(sp, <<>>, EcanConfigDefault),
              LAMBDA r : Fade(r.space, n - 1))

\* the predicate node and the list link activated once, then left to decay
\* for FadeCalls calls: the predicate node's sti is 0.882395, two calls
\* away from the floor
FadeCalls == 6

FadedAtoms ==
    Fade(spread_attention(IsolatedAtoms, <<2, 5>>, EcanConfigDefault).space,
         FadeCalls)

EcanStores == {IsolatedAtoms, LinkedAtoms, FadedAtoms}

InitEcan == \E sp \in EcanStores : StartWith(sp)

NextEcan ==
    \/ SpreadAttention
    \/ RunTikkun

SpecEcan == InitEcan /\ [][NextEcan]_vars

(***************************************************************************)
(* The focus listing (main.rs, `:focus`): atoms_by_sti on the store the    *)
(* attention allocator has worked on.                                      *)
(***************************************************************************)
MaxLimit == 3

AtomsBySti ==
    /\ steps < MaxSteps
    /\ \E limit \in 0..MaxLimit :
        \E r \in atoms_by_sti(Space, limit) :
            last' = [op |-> "atoms_by_sti", args |-> [limit |-> limit],
                     ret |-> [ids |-> r],
                     before |-> size(Space), count |-> size(Space)]
    /\ prev' = last
    /\ steps' = steps + 1
    /\ UNCHANGED <<atoms, next_id, node_index, link_index, type_index, incoming,
                   turn>>

NextFocus ==
    \/ SpreadAttention
    \/ AtomsBySti

SpecFocus == InitEcan /\ [][NextFocus]_vars

(***************************************************************************)
(* Properties of the store (atomspace.rs), checked under Spec.             *)
(***************************************************************************)
IsInsert(call) == call.op \in {"add_node", "add_link"}

\* the two most recent calls are the same insertion operation on one key
SameKeyTwice ==
    /\ IsInsert(last)
    /\ prev.op = last.op
    /\ prev.args.atom_type = last.args.atom_type
    /\ last.op = "add_node" => prev.args.name = last.args.name
    /\ last.op = "add_link" => prev.args.outgoing = last.args.outgoing

\* C1 -- Idempotent insertion.  When add_node is called twice with the same
\* (type, name), or add_link twice with the same (type, outgoing sequence),
\* whatever the two truth values are, both calls return the same id, the
\* second call reports is_new = FALSE, and the atom count after the second
\* call exceeds the count before the first call by at most one.
C1_IdempotentInsertion ==
    SameKeyTwice =>
        /\ last.ret.id = prev.ret.id
        /\ last.ret.is_new = FALSE
        /\ last.count - prev.before <= 1
        /\ last.count = prev.count

\* a node was created and then inserted again with another truth value
C1_Witness ==
    /\ SameKeyTwice
    /\ last.op = "add_node"
    /\ prev.ret.is_new
    /\ prev.args.tv # last.args.tv
    /\ last.count = prev.before + 1

\* the step is an insertion that found its key in the index
MergeStep ==
    /\ IsInsert(last')
    /\ last'.ret.is_new = FALSE

\* the merge rule, over one step: the stored truth value afterwards is the
\* argument when its confidence is strictly greater, the old value otherwise
MergeRule ==
    MergeStep =>
        LET id == last'.ret.id
            tv == last'.args.tv
            old == atoms[id].tv
        IN  /\ id \in DOMAIN atoms
            /\ atoms'[id].tv = IF RLt(old.confidence, tv.confidence) THEN tv ELSE old

\* a key inserted twice holds the pair of the insertion with the larger
\* confidence, the first one on a tie
WinnerTakesAll ==
    (SameKeyTwice /\ prev.ret.is_new) =>
        atoms[last.ret.id].tv =
            IF RLt(prev.args.tv.confidence, last.args.tv.confidence)
            THEN last.args.tv ELSE prev.args.tv

\* C2 -- Confidence-max merge.  When add_node or add_link hits an existing
\* key with truth value tv, the stored truth value becomes tv if and only if
\* tv.confidence is strictly greater than the stored confidence and is left
\* unchanged otherwise; a key inserted with confidences c1 then c2 holds the
\* whole (strength, confidence) pair of the insertion with the larger
\* confidence, so strength and confidence always come from one insertion.
C2_ConfidenceMaxMerge == [][MergeRule]_vars /\ []WinnerTakesAll

\* a second insertion with higher confidence and lower strength replaced
\* the pair of the first
C2_Witness ==
    /\ SameKeyTwice
    /\ prev.ret.is_new
    /\ RLt(prev.args.tv.confidence, last.args.tv.confidence)
    /\ RLt(last.args.tv.strength, prev.args.tv.strength)
    /\ atoms[last.ret.id].tv = last.args.tv

\* the two most recent calls are add_link of one type with different
\* outgoing sequences
TwoLinkCalls ==
    /\ prev.op = "add_link"
    /\ last.op = "add_link"
    /\ prev.args.atom_type = last.args.atom_type
    /\ prev.args.outgoing # last.args.outgoing

\* C3 -- Order-sensitive link identity.  For a link type T and distinct ids
\* a and b, add_link(T, [a, b]) and add_link(T, [b, a]) return two distinct
\* ids and both atoms exist afterwards; more generally two add_link calls of
\* one type whose outgoing sequences differ in order or in multiplicity
\* return distinct ids, and each atom stores its own sequence unchanged.
C3_OrderSensitiveLinks ==
    TwoLinkCalls =>
        /\ prev.ret.id # last.ret.id
        /\ prev.ret.id \in DOMAIN atoms
        /\ last.ret.id \in DOMAIN atoms
        /\ atoms[prev.ret.id].outgoing = prev.args.outgoing
        /\ atoms[last.ret.id].outgoing = last.args.outgoing

\* [a, b] then [b, a] with a # b, both created
C3_Witness ==
    /\ TwoLinkCalls
    /\ Len(prev.args.outgoing) = 2
    /\ prev.args.outgoing[1] # prev.args.outgoing[2]
    /\ last.args.outgoing = <<prev.args.outgoing[2], prev.args.outgoing[1]>>
    /\ prev.ret.is_new
    /\ last.ret.is_new

InUnitInterval(x) == RLe(Zero, x) /\ RLe(x, One)

NoOrphanReference ==
    \A id \in DOMAIN atoms :
        \A i \in 1..Len(atoms[id].outgoing) : atoms[id].outgoing[i] \in DOMAIN atoms

TruthValuesInRange ==
    \A id \in DOMAIN atoms :
        InUnitInterval(atoms[id].tv.strength) /\ InUnitInterval(atoms[id].tv.confidence)

CheckPassed(report, name) ==
    \E i \in 1..Len(report.checks) :
        report.checks[i].name = name /\ report.checks[i].passed

\* C4 -- Auditor soundness.  After any sequence of add_node, add_link and
\* forward_chain calls (add_link being given ids of existing atoms), every
\* outgoing id of every link is the id of an atom in the store and every
\* strength and confidence lies in [0, 1]; whenever run_tikkun is run, its
\* 'no-orphans' and 'tvs-valid' checks pass.
C4_AuditorSoundness ==
    /\ NoOrphanReference
    /\ TruthValuesInRange
    /\ last.op = "run_tikkun" =>
          /\ CheckPassed(last.ret, "no-orphans")
          /\ CheckPassed(last.ret, "tvs-valid")

\* the audit ran right after a link was created from an out-of-range
\* (strength, confidence) argument
C4_Witness ==
    /\ last.op = "run_tikkun"
    /\ prev.op = "add_link"
    /\ prev.ret.is_new
    /\ prev.args.outgoing # <<>>
    /\ prev.args.tv = [strength |-> One, confidence |-> Zero]

(***************************************************************************)
(* Properties of the inference engine (pln.rs), checked under SpecInfer.   *)
(***************************************************************************)
ForwardChainStep == last'.op = "forward_chain"

Created == DOMAIN atoms' \ DOMAIN atoms

InhIds(sp) ==
    {id \in DOMAIN sp.atoms : sp.atoms[id].atom_type = "InheritanceLink"}

InhEdges(sp) == {sp.atoms[id].outgoing : id \in InhIds(sp)}

\* every Inference names a link the call created, whose end points and
\* truth value come from its two premises
DeductionRule ==
    ForwardChainStep =>
        LET infs == last'.ret.inferences IN
        /\ Created = {infs[i].conclusion_id : i \in 1..Len(infs)}
        /\ Cardinality(Created) = Len(infs)
        /\ \A id \in DOMAIN atoms : atoms'[id].tv = atoms[id].tv
        /\ \A i \in 1..Len(infs) :
              LET c == atoms'[infs[i].conclusion_id]
                  ab == atoms'[infs[i].premises[1]]
                  bc == atoms'[infs[i].premises[2]]
              IN  /\ infs[i].rule = "deduction"
                  /\ c.atom_type = "InheritanceLink"
                  /\ ab.atom_type = "InheritanceLink"
                  /\ bc.atom_type = "InheritanceLink"
                  /\ ab.outgoing[2] = bc.outgoing[1]
                  /\ c.outgoing = <<ab.outgoing[1], bc.outgoing[2]>>
                  /\ c.tv.strength = RMul(ab.tv.strength, bc.tv.strength)
                  /\ c.tv.confidence =
                        RMul(RMin(ab.tv.confidence, bc.tv.confidence), <<9, 10>>)

\* from exactly the two edges x -> y and y -> z over three distinct atoms,
\* forward_chain(1) creates the one link x -> z and reports it once
TwoSeedRule ==
    (ForwardChainStep /\ last'.args.max_depth = 1) =>
        \A x, y, z \in DOMAIN atoms :
            ( /\ Cardinality({x, y, z}) = 3
              /\ Cardinality(InhIds(Space)) = 2
              /\ InhEdges(Space) = {<<x, y>>, <<y, z>>} )
            => /\ Len(last'.ret.inferences) = 1
               /\ last'.ret.inferences[1].rule = "deduction"
               /\ Cardinality(Created) = 1
               /\ \A id \in Created :
                     /\ atoms'[id].atom_type = "InheritanceLink"
                     /\ atoms'[id].outgoing = <<x, z>>

\* C5 -- Deduction arithmetic.  Every link A->C that forward_chain creates
\* from premises A->B and B->C has strength = strength(A->B) * strength(B->C)
\* and confidence = min(confidence(A->B), confidence(B->C)) * 0.9, the
\* premises' truth values being those they had when the round started (the
\* call changes no existing truth value); and on a store whose inheritance
\* links are exactly X->Y and Y->Z, with X, Y and Z distinct,
\* forward_chain(1) creates exactly one link, X->Z, and returns exactly one
\* Inference, with rule 'deduction'.
C5_DeductionArithmetic == [][DeductionRule /\ TwoSeedRule]_vars

\* forward_chain(1) ran on two seed edges of different strength and
\* confidence and produced its one conclusion
C5_Witness ==
    /\ last.op = "forward_chain"
    /\ last.args.max_depth = 1
    /\ prev.op = "new"
    /\ Len(last.ret.inferences) = 1
    /\ Cardinality(InhIds(Space)) = 3
    /\ LET inf == last.ret.inferences[1]
           ab == atoms[inf.premises[1]].tv
           bc == atoms[inf.premises[2]].tv
       IN  /\ ab.confidence # bc.confidence
           /\ RLt(ab.strength, One)
           /\ RLt(bc.strength, One)
           /\ atoms[inf.conclusion_id].tv.confidence =
                 RMul(RMin(ab.confidence, bc.confidence), <<9, 10>>)

\* E is an acyclic chain v[1] -> v[2] -> ... of Cardinality(E) edges, laid
\* out by v
LaysOut(v, E) ==
    /\ \A i, j \in DOMAIN v : i # j => v[i] # v[j]
    /\ E = {<<v[i], v[i + 1]>> : i \in 1..Cardinality(E)}

Ends(E) == {e[1] : e \in E} \cup {e[2] : e \in E}

ChainLayouts(E) ==
    IF E = {} \/ (\E e \in E : Len(e) # 2) \/ Cardinality(Ends(E)) # Cardinality(E) + 1
    THEN {}
    ELSE {v \in [1..(Cardinality(E) + 1) -> Ends(E)] : LaysOut(v, E)}

\* every pair of the chain with the first atom before the second
ChainClosure(v) ==
    {<<v[p[1]], v[p[2]]>> : p \in {q \in (DOMAIN v) \X (DOMAIN v) : q[1] < q[2]}}

\* on a chain of k edges, any max_depth >= k - 1 leaves the links that
\* forward_chain(k - 1) leaves: the whole closure of the chain
FixpointRule ==
    ForwardChainStep =>
        LET E == InhEdges(Space)
            k == Cardinality(InhEdges(Space))
        IN  \A v \in ChainLayouts(E) :
                last'.args.max_depth >= k - 1 =>
                    /\ InhEdges(Space)' = InhEdges(forward_chain(Space, k - 1).space)
                    /\ InhEdges(Space)' = ChainClosure(v)

\* the number of leading rounds, at most `most`, that create a link
RECURSIVE ProductiveRounds(_, _)
ProductiveRounds(sp, most) ==
    IF most = 0 THEN 0
    ELSE Bind(deduction_step(sp),
              LAMBDA step : IF step.inferences = <<>> THEN 0
                            ELSE 1 + ProductiveRounds(step.space, most - 1))

\* the loop runs the productive rounds and, if max_depth allows one more,
\* the first round that creates nothing, on which it breaks
BreakRule ==
    ForwardChainStep =>
        LET n == last'.args.max_depth
            p == ProductiveRounds(Space, last'.args.max_depth)
        IN  /\ last'.rounds <= n
            /\ last'.broke = (p < n)
            /\ last'.rounds = IF p < n THEN p + 1 ELSE n

\* C6 -- Fixpoint termination.  forward_chain terminates after at most
\* max_depth rounds; over a store whose inheritance links form an acyclic
\* chain of k edges, forward_chain(N) with N >= k - 1 leaves the same set of
\* inheritance links as forward_chain(k - 1); and the round loop breaks on
\* the first round that creates no link instead of running all N rounds.
C6_FixpointTermination == [][FixpointRule /\ BreakRule]_vars

\* a chain of four edges closed to its ten links by forward_chain(4), which
\* broke on its third round
C6_Witness ==
    /\ last.op = "forward_chain"
    /\ prev.op = "new"
    /\ last.args.max_depth = 4
    /\ last.broke
    /\ last.rounds = 3
    /\ Len(last.ret.inferences) = 6
    /\ Cardinality(InhEdges(Space)) = 10

\* the two most recent calls are forward_chain with the same max_depth
ForwardChainTwice ==
    /\ prev.op = "forward_chain"
    /\ last.op = "forward_chain"
    /\ prev.args.max_depth = last.args.max_depth

\* C7 as stated -- No duplicate inference.  For any store and any depth d,
\* when forward_chain(d) is called twice in a row, the second call returns
\* an empty list of inferences and creates no atom.
C7_SecondCallEmpty ==
    ForwardChainTwice =>
        /\ last.ret.inferences = <<>>
        /\ last.count = prev.count

\* C7 as amended -- when forward_chain(d) is called twice in a row and the
\* first call ended on a round that created nothing (it left its loop
\* through `break`), the second call returns an empty list of inferences
\* and creates no atom.
C7_SecondCallEmptyAtFixpoint ==
    (ForwardChainTwice /\ prev.broke) =>
        /\ last.ret.inferences = <<>>
        /\ last.count = prev.count

\* the first call derived links and reached the fixpoint, the second call
\* followed at the same depth
C7_Witness ==
    /\ ForwardChainTwice
    /\ prev.broke
    /\ prev.ret.inferences # <<>>
    /\ last.ret.inferences = <<>>

(***************************************************************************)
(* Properties of the attention allocator (ecan.rs), checked under SpecEcan.*)
(***************************************************************************)
SpreadStep == last'.op = "spread_attention"

\* no link lists x and x lists nothing
Isolated(x) ==
    /\ atoms[x].outgoing = <<>>
    /\ \A l \in DOMAIN atoms : x \notin Range(atoms[l].outgoing)

Weight(atom_type) ==
    CASE atom_type = "ConceptNode" -> <<95, 100>>
      [] atom_type = "PredicateNode" -> <<1, 2>>
      [] atom_type \in {"InheritanceLink", "EvaluationLink"} -> <<85, 100>>
      [] atom_type = "ListLink" -> One

\* a call that activates exactly one isolated atom adds initial_sti * weight
BoostRule ==
    SpreadStep =>
        \A x \in DOMAIN atoms :
            (Isolated(x) /\ last'.args.activated = <<x>>) =>
                atoms'[x].av.sti =
                    RAdd(atoms[x].av.sti,
                         RMul(EcanConfigDefault.initial_sti,
                              Weight(atoms[x].atom_type)))

\* a call that activates nothing decays every isolated atom, floored at 0
RentRule ==
    SpreadStep =>
        \A x \in DOMAIN atoms :
            (Isolated(x) /\ last'.args.activated = <<>>) =>
                atoms'[x].av.sti =
                    RMax(Zero,
                         RSub(RMul(atoms[x].av.sti, EcanConfigDefault.decay_factor),
                              EcanConfigDefault.rent))

\* C8: for an atom that no link lists and that lists nothing, one
\* spread_attention call with activated = [that atom] leaves its sti at
\* old sti + initial_sti * weight(type), the weight being 0.95 for a concept,
\* 0.5 for a predicate, 0.85 for an inheritance or evaluation link and 1.0
\* for a list link; and a spread_attention call with activated = [] (the one
\* that follows included) leaves its sti at max(0, sti * decay_factor - rent).
C8_IsolatedAtomAttention == [][BoostRule /\ RentRule]_vars

\* the predicate node was activated alone from sti 0 (0 + 40 * 0.5 = 20) and
\* the next call activated nothing (20 * 0.7 - 0.5 = 13.5)
C8_Witness ==
    /\ prev.op = "spread_attention" /\ last.op = "spread_attention"
    /\ last.args.activated = <<>>
    /\ \E x \in DOMAIN atoms :
        /\ Isolated(x)
        /\ atoms[x].atom_type = "PredicateNode"
        /\ prev.args.activated = <<x>>
        /\ atoms[x].av.sti = <<27, 2>>
        /\ \E k \in DOMAIN last.ret.changes :
              /\ last.ret.changes[k].id = x
              /\ last.ret.changes[k].old = <<20, 1>>
              /\ decayed(last.ret.changes[k])

\* an isolated atom with a positive sti was brought to the floor
C8_FloorReached ==
    /\ last.op = "spread_attention" /\ last.args.activated = <<>>
    /\ \E k \in DOMAIN last.ret.changes :
          /\ Isolated(last.ret.changes[k].id)
          /\ RLt(Zero, last.ret.changes[k].old)
          /\ last.ret.changes[k].new_val = Zero

(***************************************************************************)
(* Properties of the store's indices and ids (atomspace.rs), checked under *)
(* Spec.                                                                   *)
(***************************************************************************)
Count(seq, v) == Cardinality({i \in DOMAIN seq : seq[i] = v})

\* atoms made by add_node carry a name, atoms made by add_link carry none
MadeByAddNode(id) == atoms[id].name # <<>>
MadeByAddLink(id) == atoms[id].name = <<>>

NodeIndexExact ==
    /\ \A key \in DOMAIN node_index :
        /\ node_index[key] \in DOMAIN atoms
        /\ MadeByAddNode(node_index[key])
        /\ key = <<atoms[node_index[key]].atom_type, atoms[node_index[key]].name[1]>>
    /\ \A id \in DOMAIN atoms :
        MadeByAddNode(id) =>
            /\ <<atoms[id].atom_type, atoms[id].name[1]>> \in DOMAIN node_index
            /\ node_index[<<atoms[id].atom_type, atoms[id].name[1]>>] = id

LinkIndexExact ==
    /\ \A key \in DOMAIN link_index :
        /\ link_index[key] \in DOMAIN atoms
        /\ MadeByAddLink(link_index[key])
        /\ key = <<atoms[link_index[key]].atom_type, atoms[link_index[key]].outgoing>>
    /\ \A id \in DOMAIN atoms :
        MadeByAddLink(id) =>
            /\ <<atoms[id].atom_type, atoms[id].outgoing>> \in DOMAIN link_index
            /\ link_index[<<atoms[id].atom_type, atoms[id].outgoing>>] = id

TypeIndexExact ==
    /\ DOMAIN type_index \subseteq AtomType
    /\ \A t \in AtomType :
        \A id \in DOMAIN atoms \cup Range(get_by_type(Space, t)) :
            Count(get_by_type(Space, t), id) =
                IF id \in DOMAIN atoms /\ atoms[id].atom_type = t THEN 1 ELSE 0

IncomingExact ==
    \A x \in DOMAIN incoming \cup DOMAIN atoms :
        \A l \in DOMAIN atoms \cup Range(get_incoming(Space, x)) :
            Count(get_incoming(Space, x), l) =
                IF l \in DOMAIN atoms THEN Count(atoms[l].outgoing, x) ELSE 0

\* C9: after every add_node / add_link call, those made by forward_chain
\* and run included, the four indices agree exactly with the atom table:
\* node_index maps (type, name) to id exactly for the atoms add_node made,
\* link_index maps (type, outgoing) to id exactly for the atoms add_link
\* made, type_index[t] lists every id of type t exactly once, and
\* incoming[x] holds link id l exactly as many times as x occurs in l's
\* outgoing list.
C9_IndexConsistency ==
    NodeIndexExact /\ LinkIndexExact /\ TypeIndexExact /\ IncomingExact

\* add_link has just made a link that names one target twice, and that
\* target has two incoming entries for it
C9_Witness ==
    /\ last.op = "add_link" /\ last.ret.is_new
    /\ \E a \in DOMAIN atoms :
        /\ atoms[last.ret.id].outgoing = <<a, a>>
        /\ Count(get_incoming(Space, a), last.ret.id) = 2

\* ids are 1, 2, 3, ... with none missing, and next_id is one past the count
IdsInOrder ==
    /\ next_id = size(Space) + 1
    /\ DOMAIN atoms = 1..size(Space)
    /\ \A id \in DOMAIN atoms : atoms[id].id = id

IsPrefix(s, t) == Len(s) <= Len(t) /\ \A i \in 1..Len(s) : s[i] = t[i]

MapGrows(m, n) == DOMAIN m \subseteq DOMAIN n /\ \A k \in DOMAIN m : n[k] = m[k]

ListsGrow(m, n) ==
    DOMAIN m \subseteq DOMAIN n /\ \A k \in DOMAIN m : IsPrefix(m[k], n[k])

\* what one operation may do to the store
Permanence ==
    /\ DOMAIN atoms \subseteq DOMAIN atoms'
    /\ \A id \in DOMAIN atoms :
        /\ atoms'[id].atom_type = atoms[id].atom_type
        /\ atoms'[id].name = atoms[id].name
        /\ atoms'[id].outgoing = atoms[id].outgoing
    /\ DOMAIN atoms' \ DOMAIN atoms = next_id..(next_id' - 1)
    /\ IsInsert(last') /\ last'.ret.is_new => last'.ret.id = size(Space) + 1
    /\ MapGrows(node_index, node_index')
    /\ MapGrows(link_index, link_index')
    /\ ListsGrow(type_index, type_index')
    /\ ListsGrow(incoming, incoming')

\* C10: ids are assigned 1, 2, 3, ... in creation order, so next_id always
\* equals the atom count + 1; and no operation (add_node, add_link,
\* spread_attention, forward_chain, run) removes an atom, reuses an id,
\* shrinks an index, or changes an existing atom's type, name or outgoing
\* list.
C10_IdAllocationAndPermanence == []IdsInOrder /\ [][Permanence]_vars

\* a re-insertion that made nothing, then an insertion that made the atom
\* with the next id
C10_Witness ==
    /\ IsInsert(prev) /\ ~prev.ret.is_new
    /\ IsInsert(last) /\ last.ret.is_new
    /\ last.ret.id = prev.count + 1
    /\ next_id = last.ret.id + 1
    /\ last.ret.id > 1

(***************************************************************************)
(* The shape of atoms (atom.rs, atomspace.rs), checked under Spec.         *)
(***************************************************************************)
KindsPartition == \A t \in AtomType : is_node(t) # is_link(t)

NamedIffNode == \A id \in DOMAIN atoms : (atoms[id].name # <<>>) <=> is_node(atoms[id].atom_type)

EmptyOutgoingIffNode ==
    \A id \in DOMAIN atoms : (atoms[id].outgoing = <<>>) <=> is_node(atoms[id].atom_type)

\* C11: in every reachable store state every atom has a name if and only if
\* its type is node-kind, and has an empty outgoing list if and only if its
\* type is node-kind; node-kind and link-kind are exhaustive and exclusive
\* over AtomType.
C11_NodeLinkShape == KindsPartition /\ NamedIffNode /\ EmptyOutgoingIffNode

(***************************************************************************)
(* The processing cycle (cogloop.rs), checked under Spec.                  *)
(***************************************************************************)
RunStep == last'.op = "run"

\* the store a call leaves is the one forward_chain(2) leaves when run on
\* the store spread_attention leaves when run, with the parser's ids, on
\* the store the parser leaves
CycleOrder ==
    RunStep =>
        \E p \in {parse_input([Space EXCEPT !.turn = turn + 1], last'.args.words)} :
        \E a \in {spread_attention(p.space, parsed_all_ids(p), EcanConfigDefault)} :
        \E f \in {forward_chain(a.space, 2)} :
            /\ Space' = f.space
            /\ last'.activated = [i \in 1..Len(p.atoms) |-> p.atoms[i].id]
            /\ last'.ret.inferences = Len(f.inferences)

\* what the order shows in the store: every atom the parser touched is
\* there and holds at least its boost, and what inference made holds none
CycleEffects ==
    RunStep =>
        /\ \A k \in 1..Len(last'.activated) :
            /\ last'.activated[k] \in DOMAIN atoms'
            /\ RLe(RAdd(IF last'.activated[k] \in DOMAIN atoms
                         THEN atoms[last'.activated[k]].av.sti ELSE Zero,
                         RMul(EcanConfigDefault.initial_sti,
                              Weight(atoms'[last'.activated[k]].atom_type))),
                    atoms'[last'.activated[k]].av.sti)
        /\ \A id \in DOMAIN atoms' \ DOMAIN atoms :
            id \notin Range(last'.activated) => atoms'[id].av.sti = Zero

CycleReport ==
    RunStep =>
        /\ turn' = turn + 1
        /\ last'.ret.turn = turn'
        /\ last'.ret.new_atoms = size(Space') - size(Space)
        /\ last'.ret.total_atoms = size(Space')

\* C12: each call of cogloop::run increments the turn counter by exactly
\* one and then executes, in this order and none skipped, the parser's
\* insertions, one spread_attention call whose activated list is exactly the
\* ids of all atoms the parser touched (new and pre-existing), and one
\* forward_chain call with depth 2; the reported turn is the new counter
\* value and new_atoms is the growth of the atom count over the whole call.
C12_CycleOrdering == [][CycleOrder /\ CycleEffects /\ CycleReport]_vars

\* a call whose parser touched an atom the store already held and made new
\* ones, and whose inference then derived links from the parsed link
C12_Witness ==
    /\ last.op = "run"
    /\ last.ret.turn = turn /\ turn > 0
    /\ last.ret.inferences > 0
    /\ last.ret.new_atoms > last.ret.inferences
    /\ \E k \in 1..Len(last.activated) : last.activated[k] <= last.before
    /\ \E k \in 1..Len(last.activated) : last.activated[k] > last.before

(***************************************************************************)
(* The focus ranking (atomspace.rs), checked under SpecFocus.              *)
(***************************************************************************)
FocusCall(call) == call.op = "atoms_by_sti"

RankedByStiThenId(ids) ==
    \A i \in 1..Len(ids), j \in 1..Len(ids) :
        i < j =>
            \/ RLt(atoms[ids[j]].av.sti, atoms[ids[i]].av.sti)
            \/ atoms[ids[j]].av.sti = atoms[ids[i]].av.sti /\ ids[i] < ids[j]

\* C13: atoms_by_sti(limit) returns at most `limit` atoms, all with
\* sti > 0.01, in non-increasing sti order, atoms with equal sti ordered by
\* ascending id, so that two calls on equal store states return the same
\* sequence.
C13_DeterministicFocus ==
    /\ FocusCall(last) =>
        /\ Len(last.ret.ids) <= last.args.limit
        /\ \A k \in 1..Len(last.ret.ids) :
            /\ last.ret.ids[k] \in DOMAIN atoms
            /\ RLt(<<1, 100>>, atoms[last.ret.ids[k]].av.sti)
        /\ RankedByStiThenId(last.ret.ids)
    /\ (FocusCall(last) /\ FocusCall(prev) /\ last.args = prev.args) =>
            last.ret = prev.ret

\* the part of the statement that does not depend on the order of ties
C13_RankedBySti ==
    FocusCall(last) =>
        /\ Len(last.ret.ids) <= last.args.limit
        /\ \A k \in 1..Len(last.ret.ids) :
            /\ last.ret.ids[k] \in DOMAIN atoms
            /\ RLt(<<1, 100>>, atoms[last.ret.ids[k]].av.sti)
        /\ \A i \in 1..Len(last.ret.ids), j \in 1..Len(last.ret.ids) :
            i < j => RLe(atoms[last.ret.ids[j]].av.sti, atoms[last.ret.ids[i]].av.sti)

(***************************************************************************)
(* How far one call of forward_chain reaches (pln.rs), checked under       *)
(* SpecInfer.                                                              *)
(***************************************************************************)
\* the two-place inheritance edges of the live store
SeedEdges == {e \in InhEdges(Space) : Len(e) = 2}

\* the pairs <<a, c>> joined in E by a path of 1 to n edges
RECURSIVE WithinHops(_, _)
WithinHops(E, n) ==
    IF n <= 1 THEN E
    ELSE Bind(WithinHops(E, n - 1),
              LAMBDA H : H \cup {<<q[1][1], q[2][2]>> :
                                   q \in {r \in H \X E : r[1][2] = r[2][1]}})

RECURSIVE Pow2(_)
Pow2(n) == IF n = 0 THEN 1 ELSE 2 * Pow2(n - 1)

CreatedEdges == {atoms'[id].outgoing : id \in Created}

\* C14 as stated -- Hop bound per round.  Round k of forward_chain extends
\* chains by exactly one additional hop, so forward_chain(space, R) creates a
\* link a->c only if the inheritance edges present at call entry contain a
\* path from a to c of at most R + 1 edges.
C14_HopBound ==
    [][ForwardChainStep =>
          CreatedEdges \subseteq WithinHops(SeedEdges, last'.args.max_depth + 1)]_vars

\* C14 as amended -- a round joins any two links known at its start, so it
\* can double the length of the chains: forward_chain(space, R) creates a
\* link a->c only if the inheritance edges present at call entry contain a
\* path from a to c of at most 2^R edges.
C14_HopBoundDoubling ==
    [][ForwardChainStep =>
          CreatedEdges \subseteq WithinHops(SeedEdges, Pow2(last'.args.max_depth))]_vars

\* forward_chain(2) on a chain of four edges has made the link between the
\* two ends of the chain, which are four edges apart
C14_Witness ==
    /\ last.op = "forward_chain" /\ last.args.max_depth = 2
    /\ prev.op = "new" /\ prev.count = 10
    /\ <<5, 1>> \in InhEdges(Space)
    /\ \E k \in 1..Len(last.ret.inferences) :
          atoms[last.ret.inferences[k].conclusion_id].outgoing = <<5, 1>>

(***************************************************************************)
(* The phases of spread_attention (ecan.rs), checked under SpecEcan.       *)
(***************************************************************************)
RECURSIVE SumOf(_, _)
SumOf(f, S) ==
    IF S = {} THEN Zero
    ELSE Bind(CHOOSE x \in S : TRUE,
              LAMBDA x : RAdd(f[x], SumOf(f, S \ {x})))

\* the atoms of store B that spread: those with sti >= 1.0
Sources(B) == {y \in DOMAIN B.atoms : RLe(One, B.atoms[y].av.sti)}

\* what link l sends to x: its share for every place x has in its outgoing
FromLink(B, l, x, config) ==
    IF is_link(B.atoms[l].atom_type) /\ Count(B.atoms[l].outgoing, x) > 0
    THEN RMul(<<Count(B.atoms[l].outgoing, x), Len(B.atoms[l].outgoing)>>,
              RMul(B.atoms[l].av.sti, config.spread_fraction))
    ELSE Zero

\* what atom y sends back to link x: its share for every entry of x among
\* the links that list y
FromTarget(B, y, x, config) ==
    IF Count(get_incoming(B, y), x) > 0
    THEN RMul(<<Count(get_incoming(B, y), x), Len(get_incoming(B, y))>>,
              RMul(RMul(B.atoms[y].av.sti, config.spread_fraction), <<3, 10>>))
    ELSE Zero

\* all that x receives, every share computed from the sti values of B
Received(B, x, config) ==
    SumOf([y \in Sources(B) |->
              RAdd(FromLink(B, y, x, config), FromTarget(B, y, x, config))],
          Sources(B))

Batched(B, config) ==
    [B EXCEPT !.atoms =
        [x \in DOMAIN B.atoms |->
            [B.atoms[x] EXCEPT !.av.sti = RAdd(@, Received(B, x, config))]]]

Reversed(s) == [i \in 1..Len(s) |-> s[Len(s) + 1 - i]]

\* phase 2 on the store phase 1 left: the batch, then phase 3, is what the
\* call leaves; and visiting the atoms in the opposite order gives the same
BatchRule ==
    SpreadStep =>
        \E B \in {BoostPhase(Space, last'.args.activated, 1, EcanConfigDefault)} :
            /\ atoms' = DecayPhase(Batched(B, EcanConfigDefault),
                                   Range(last'.args.activated),
                                   EcanConfigDefault).atoms
            /\ ApplySpreads(B, CollectSpreads(B, Reversed(all_ids(B)),
                                               EcanConfigDefault))
                 = Batched(B, EcanConfigDefault)

\* C15: in phase 2 of spread_attention every contribution (sti *
\* spread_fraction / |outgoing| to each outgoing target of a link, and sti *
\* spread_fraction * 0.3 / |incoming| to each incoming link, only for source
\* atoms with sti >= 1.0) is computed from the sti values as they stood
\* after phase 1 and before any phase-2 contribution was applied; the
\* resulting sti values do not depend on the order in which atoms are
\* visited, and a source atom's own sti is not reduced by what it spreads.
C15_BatchedSpreading == [][BatchRule]_vars

\* a node and the link that lists it were both activated: each sent to the
\* other from its boosted value (38 and 34), the node got 34 * 0.3 / 2 and
\* the link 38 * 0.3 * 0.3
C15_Witness ==
    /\ last.op = "spread_attention" /\ last.args.activated = <<1, 6>>
    /\ prev.op = "new"
    /\ 6 \in DOMAIN atoms /\ atoms[6].outgoing = <<1, 2>>
    /\ atoms[1].av.sti = <<431, 10>>
    /\ atoms[6].av.sti = <<1871, 50>>

\* the store as phase 2 leaves it in the call being made
AfterPhase2 ==
    Bind(BoostPhase(Space, last'.args.activated, 1, EcanConfigDefault),
         LAMBDA B : ApplySpreads(B, CollectSpreads(B, all_ids(B), EcanConfigDefault)))

ExemptionRule ==
    SpreadStep =>
        \E S2 \in {AfterPhase2} :
            \A x \in DOMAIN atoms :
                atoms'[x].av.sti =
                    IF x \in Range(last'.args.activated)
                    THEN S2.atoms[x].av.sti
                    ELSE RMax(Zero,
                              RSub(RMul(S2.atoms[x].av.sti,
                                        EcanConfigDefault.decay_factor),
                                   EcanConfigDefault.rent))

NoNegativeSti == \A x \in DOMAIN atoms : RLe(Zero, atoms[x].av.sti)

\* C16: in one spread_attention call every atom whose id is in `activated`
\* is not decayed (its final sti is its post-phase-2 value, even if it
\* received spread), and every other atom of the call-entry snapshot ends
\* with sti = max(0, s * decay_factor - rent), s being its post-phase-2 sti;
\* so no atom's sti is negative in any reachable state.
C16_DecayExemptionAndFloor == [][ExemptionRule]_vars /\ []NoNegativeSti

\* the link was activated, then a node it lists: the node received spread
\* from the link and kept all of it (3.07 + 38 + 5.1), the other node the
\* link lists was decayed ((3.07 + 5.1) * 0.7 - 0.5)
C16_Witness ==
    /\ prev.op = "spread_attention" /\ prev.args.activated = <<6>>
    /\ last.op = "spread_attention" /\ last.args.activated = <<1>>
    /\ 6 \in DOMAIN atoms /\ atoms[6].outgoing = <<1, 2>>
    /\ atoms[1].av.sti = <<4617, 100>>
    /\ atoms[2].av.sti = <<5219, 1000>>

\* n boosts for an atom listed n times, none for an atom not listed
Boosts(x, activated) ==
    RMul(<<Count(activated, x), 1>>,
         RMul(EcanConfigDefault.initial_sti, Weight(atoms[x].atom_type)))

\* the live store with every atom given its boosts
Boosted(activated) ==
    [Space EXCEPT !.atoms =
        [x \in DOMAIN atoms |->
            [atoms[x] EXCEPT !.av.sti = RAdd(@, Boosts(x, activated))]]]

\* the call leaves what phases 2 and 3 leave on the boosted store; ids the
\* store does not hold change nothing; an isolated atom that is listed
\* shows its boosts directly
OccurrenceRule ==
    SpreadStep =>
        /\ \E B \in {Boosted(last'.args.activated)} :
              atoms' = DecayPhase(
                          ApplySpreads(B, CollectSpreads(B, all_ids(B),
                                                         EcanConfigDefault)),
                          Range(last'.args.activated), EcanConfigDefault).atoms
        /\ DOMAIN atoms' = DOMAIN atoms
        /\ \E kept \in {SelectSeq(last'.args.activated,
                                   LAMBDA id : id \in DOMAIN atoms)} :
              atoms' = spread_attention(Space, kept, EcanConfigDefault).space.atoms
        /\ \A x \in DOMAIN atoms :
              (Isolated(x) /\ x \in Range(last'.args.activated)) =>
                  atoms'[x].av.sti = RAdd(atoms[x].av.sti,
                                          Boosts(x, last'.args.activated))

\* C17: in phase 1 of spread_attention an id that occurs n times in the
\* `activated` list receives n boosts of initial_sti * weight(type) (an id
\* listed twice is boosted twice), an id in `activated` that is not in the
\* store is skipped without error, and ids not in `activated` receive no
\* boost.
C17_BoostPerOccurrence == [][OccurrenceRule]_vars

\* the predicate node was listed twice (0 + 2 * 20), then once next to an id
\* the store does not hold (40 + 20)
C17_Witness ==
    /\ prev.op = "spread_attention" /\ prev.args.activated = <<2, 2>>
    /\ last.op = "spread_attention" /\ last.args.activated = <<next_id, 2>>
    /\ Isolated(2)
    /\ atoms[2].atom_type = "PredicateNode"
    /\ atoms[2].av.sti = <<60, 1>>

(***************************************************************************)
(* Which premises a round of deduction takes (pln.rs), checked under       *)
(* SpecInfer on the first round of every forward_chain call.               *)
(***************************************************************************)
\* the two-place inheritance links of the live store
Inh2 == {id \in InhIds(Space) : Len(atoms[id].outgoing) = 2}

\* the premise pairs (a->b, b->c) for the conclusion e = (a, c)
PremisePairs(e) ==
    {pq \in Inh2 \X Inh2 :
        /\ atoms[pq[1]].outgoing[1] = e[1]
        /\ atoms[pq[2]].outgoing[2] = e[2]
        /\ atoms[pq[1]].outgoing[2] = atoms[pq[2]].outgoing[1]}

\* the conclusions open to a round: end points differ, some pair yields it
\* and no inheritance link holds it yet
OpenConclusions ==
    {e \in Ends(SeedEdges) \X Ends(SeedEdges) :
        e[1] # e[2] /\ PremisePairs(e) # {} /\ e \notin InhEdges(Space)}

\* the first pair in the order of the loops: lowest a->b id, then lowest
\* b->c id
FirstPair(e) ==
    CHOOSE pq \in PremisePairs(e) :
        \A o \in PremisePairs(e) :
            pq[1] < o[1] \/ (pq[1] = o[1] /\ pq[2] <= o[2])

\* the records of the first round of the call being made
FirstRound ==
    SubSeq(last'.ret.inferences, 1, Cardinality(OpenConclusions))

FirstFoundRule ==
    (ForwardChainStep /\ last'.args.max_depth > 0) =>
        \E R \in {FirstRound} :
            /\ Len(last'.ret.inferences) >= Cardinality(OpenConclusions)
            /\ {atoms'[R[k].conclusion_id].outgoing : k \in 1..Len(R)}
                    = OpenConclusions
            /\ \A k \in 1..Len(R) :
                \E e \in {atoms'[R[k].conclusion_id].outgoing} :
                \E pq \in {FirstPair(e)} :
                    /\ R[k].conclusion_id \in Created
                    /\ R[k].premises = <<pq[1], pq[2]>>
                    /\ R[k].tv.strength =
                          RMul(atoms[pq[1]].tv.strength, atoms[pq[2]].tv.strength)
                    /\ R[k].tv.confidence =
                          RMul(RMin(atoms[pq[1]].tv.confidence,
                                    atoms[pq[2]].tv.confidence), <<9, 10>>)
                    /\ atoms'[R[k].conclusion_id].tv = R[k].tv

\* C18: when several premise pairs (a->b, b->c) with different middle terms
\* b yield the same conclusion (a, c) in one round, exactly one link a->c is
\* created and its truth value and recorded premises are those of the first
\* pair in iteration order, inheritance links being iterated in ascending
\* link-id order (outer loop over a->b, inner loop over b->c); the round run
\* from equal store states always selects the same pair.
C18_FirstFoundWins == [][FirstFoundRule]_vars

\* a call whose first round made a link that two pairs with different
\* middle terms and different truth values yield, from the pair with the
\* lowest ids
C18_Witness ==
    /\ last.op = "forward_chain" /\ prev.op = "forward_chain"
    /\ \E k \in 1..Len(last.ret.inferences) :
        \E p, q \in InhIds(Space) :
            /\ last.ret.inferences[k].premises[1] < p
            /\ p < last.ret.inferences[k].conclusion_id
            /\ q < last.ret.inferences[k].conclusion_id
            /\ atoms[p].outgoing[1]
                  = atoms[last.ret.inferences[k].conclusion_id].outgoing[1]
            /\ atoms[q].outgoing[2]
                  = atoms[last.ret.inferences[k].conclusion_id].outgoing[2]
            /\ atoms[p].outgoing[2] = atoms[q].outgoing[1]
            /\ atoms[p].outgoing[2]
                  # atoms[last.ret.inferences[k].premises[1]].outgoing[2]
            /\ deduction_tv(atoms[p].tv, atoms[q].tv)
                  # last.ret.inferences[k].tv
            /\ p <= prev.count /\ q <= prev.count

(***************************************************************************)
(* Confidence over every step of the store (atomspace.rs, pln.rs,          *)
(* cogloop.rs), checked under Spec.                                        *)
(***************************************************************************)
\* the step inserted the key of atom id again, directly or as one of the
\* atoms the parser of a cycle produced
ReinsertedBy(id) ==
    \/ /\ IsInsert(last')
       /\ last'.ret.id = id
       /\ last'.ret.is_new = FALSE
       /\ atoms'[id].tv = last'.args.tv
    \/ /\ last'.op = "run"
       /\ id \in Range(last'.activated)

ConfidenceRule ==
    \A id \in DOMAIN atoms :
        /\ id \in DOMAIN atoms'
        /\ RLe(atoms[id].tv.confidence, atoms'[id].tv.confidence)
        /\ atoms'[id].tv # atoms[id].tv =>
              /\ RLt(atoms[id].tv.confidence, atoms'[id].tv.confidence)
              /\ ReinsertedBy(id)

\* C19: across any sequence of add_node, add_link, spread_attention,
\* forward_chain and run calls the confidence of every existing atom never
\* decreases, and the truth value of an atom changes only by a re-insertion
\* of its own key with strictly greater confidence.
C19_ConfidenceNeverDecreases == [][ConfidenceRule]_vars

\* a node inserted with confidence 0 and a different strength was inserted
\* again by the parser of a cycle, which raised its truth value
C19_Witness ==
    /\ last.op = "run"
    /\ prev.op = "add_node"
    /\ prev.ret.is_new
    /\ prev.ret.id \in Range(last.activated)
    /\ RLt(prev.args.tv.confidence, atoms[prev.ret.id].tv.confidence)
    /\ atoms[prev.ret.id].tv.strength # prev.args.tv.strength

(***************************************************************************)
(* What a call of forward_chain may touch (pln.rs), checked under          *)
(* SpecInfer.                                                              *)
(***************************************************************************)
\* the record of the call that concluded the link id
RecordOf(id) ==
    CHOOSE k \in 1..Len(last'.ret.inferences) :
        last'.ret.inferences[k].conclusion_id = id

\* the round of the call that made the link id; 0 for an atom that was there
\* at call entry
RECURSIVE RoundOf(_)
RoundOf(id) ==
    IF id \in DOMAIN atoms THEN 0
    ELSE LET pr == last'.ret.inferences[RecordOf(id)].premises
             m == RoundOf(pr[1])
             n == RoundOf(pr[2])
         IN  1 + (IF m < n THEN n ELSE m)

\* atoms that were there at call entry keep truth value and attention value
FrameKept ==
    \A id \in DOMAIN atoms :
        /\ id \in DOMAIN atoms'
        /\ atoms'[id].tv = atoms[id].tv
        /\ atoms'[id].av = atoms[id].av

\* what is created is an inheritance link between two different atoms, of
\* no attention
CreatedShape ==
    \A id \in Created :
        /\ atoms'[id].atom_type = "InheritanceLink"
        /\ Len(atoms'[id].outgoing) = 2
        /\ atoms'[id].outgoing[1] # atoms'[id].outgoing[2]
        /\ atoms'[id].av.sti = Zero

\* one record per created link and one created link per record
RecordsMatchGrowth ==
    LET inf == last'.ret.inferences IN
    /\ Len(inf) = Cardinality(DOMAIN atoms') - Cardinality(DOMAIN atoms)
    /\ \A k \in 1..Len(inf) : inf[k].conclusion_id \in Created
    /\ \A j, k \in 1..Len(inf) :
          j # k => inf[j].conclusion_id # inf[k].conclusion_id

\* the premises of a record are inheritance links a->b and b->c for its
\* conclusion a->c, older than the conclusion
PremisesChain ==
    LET inf == last'.ret.inferences IN
    \A k \in 1..Len(inf) :
        /\ Len(inf[k].premises) = 2
        /\ \A i \in 1..2 :
              /\ inf[k].premises[i] \in DOMAIN atoms'
              /\ inf[k].premises[i] < inf[k].conclusion_id
              /\ inf[k].premises[i] \in
                    DOMAIN atoms \cup {inf[j].conclusion_id : j \in 1..Len(inf)}
              /\ atoms'[inf[k].premises[i]].atom_type = "InheritanceLink"
              /\ Len(atoms'[inf[k].premises[i]].outgoing) = 2
        /\ atoms'[inf[k].premises[1]].outgoing[1]
              = atoms'[inf[k].conclusion_id].outgoing[1]
        /\ atoms'[inf[k].premises[2]].outgoing[2]
              = atoms'[inf[k].conclusion_id].outgoing[2]
        /\ atoms'[inf[k].premises[1]].outgoing[2]
              = atoms'[inf[k].premises[2]].outgoing[1]

\* the records come round by round, no more rounds than asked for, and the
\* premises of a record are older than every link of its round
PremisesFromRoundStart ==
    LET inf == last'.ret.inferences IN
    \A k \in 1..Len(inf) :
        /\ RoundOf(inf[k].conclusion_id) <= last'.args.max_depth
        /\ \A j \in 1..Len(inf) :
              /\ j < k => RoundOf(inf[j].conclusion_id)
                             <= RoundOf(inf[k].conclusion_id)
              /\ RoundOf(inf[j].conclusion_id) = RoundOf(inf[k].conclusion_id)
                    => /\ inf[k].premises[1] < inf[j].conclusion_id
                       /\ inf[k].premises[2] < inf[j].conclusion_id

FrameRule ==
    ForwardChainStep =>
        /\ FrameKept
        /\ CreatedShape
        /\ RecordsMatchGrowth
        /\ PremisesChain
        /\ PremisesFromRoundStart

\* C20: forward_chain leaves the truth value and attention value of every
\* atom that existed at call entry unchanged and creates only InheritanceLink
\* atoms [a, c] with a != c and sti 0; every candidate it materializes is
\* new, so the number of Inference records returned equals the growth of the
\* atom count, each record's conclusion_id is a distinct newly created link,
\* and its two premises are inheritance links a->b and b->c existing at the
\* start of that round.
C20_InferenceFrame == [][FrameRule]_vars

\* after a cycle that left attention on its atoms, a call made a link
C20_Witness ==
    /\ last.op = "forward_chain"
    /\ prev.op = "run"
    /\ last.count > last.before
    /\ Len(last.ret.inferences) = last.count - last.before
    /\ \E id \in DOMAIN atoms : id <= last.before /\ RLt(Zero, atoms[id].av.sti)

\* from the start-up store, a call made links in two rounds: a premise of
\* its last record is a link the call itself made
C20_TwoRounds ==
    /\ last.op = "forward_chain"
    /\ prev.op = "new"
    /\ Len(last.ret.inferences) > 1
    /\ last.ret.inferences[Len(last.ret.inferences)].premises[2] > last.before

====
